---- MODULE Spec2Model ----
(***************************************************************************)
(* Counter aggregate of timescaledb-toolkit (extension/src/counter_agg.rs):*)
(* the transition state CounterSummaryTransState, the aggregate support    *)
(* functions counter_agg_trans, counter_agg_summary_trans,                 *)
(* counter_agg_combine, counter_summary_trans_serialize/deserialize and    *)
(* counter_agg_final, and the CounterSummary they build.                   *)
(*                                                                         *)
(* Option<T> is a sequence of length 0 (None) or 1 (Some).  A call that    *)
(* can panic yields an outcome record [panic, val]; where the source       *)
(* leaves an order unspecified (sort_unstable_by_key on equal keys) an     *)
(* operator yields the set of outcomes.                                    *)
(***************************************************************************)
EXTENDS Integers, Sequences, FiniteSets

\* ------------------------------------------------------------- bounds
MaxTs == 2
MaxRows == 3

\* timestamps are microseconds; accessors report seconds
USECS_PER_SEC == 1000000
\* the tests' rows are one minute apart
RowSpacingSecs == 60
\* the Prometheus method works in milliseconds and takes one off the right
\* bound
USECS_PER_MSEC == 1000
MSECS_PER_SEC == 1000
PrometheusTrimMsecs == 1

Minute(k) == k * RowSpacingSecs * USECS_PER_SEC
Timestamps == {Minute(k) : k \in 0..MaxTs}
\* counter readings, as in the tests' rows
Values == {10, 20, 30}
TSPoint == [ts : Timestamps, val : Values]

None == <<>>
Some(x) == <<x>>
IsSome(o) == Len(o) = 1
Unwrap(o) == o[1]

\* a tstzrange argument, read by get_range as a closed-open I64Range
I64Range(l, r) == [left |-> l, right |-> r]
\* the range argument of the model: it starts at the first timestamp and
\* ends, open, at the last
Range == I64Range(Minute(0), Minute(MaxTs))
BoundsArgs == {None, Some(Range)}

Ok(x) == [panic |-> FALSE, val |-> <<x>>]
Panicked == [panic |-> TRUE, val |-> <<>>]

\* f is Some(outcome): the aggregate returned a summary; that summary
Returned(f) == IsSome(f) /\ ~Unwrap(f).panic /\ IsSome(Unwrap(Unwrap(f).val))
ResultOf(f) == Unwrap(Unwrap(Unwrap(f).val))

Remove(s, i) == SubSeq(s, 1, i - 1) \o SubSeq(s, i + 1, Len(s))

\* ------------------------------------------------- InternalCounterSummary
StatsSummary2D_new == [n |-> 0, sx |-> 0, sy |-> 0]

accum(stats, x, y) == [n |-> stats.n + 1, sx |-> stats.sx + x, sy |-> stats.sy + y]

stats_combine(a, b) == [n |-> a.n + b.n, sx |-> a.sx + b.sx, sy |-> a.sy + b.sy]

\* new that seeds first and last only, and leaves the inner two points zero
CounterSummary_new_outer_only(pt, bounds) ==
    [first |-> pt, second |-> [ts |-> 0, val |-> 0],
     penultimate |-> [ts |-> 0, val |-> 0], last |-> pt,
     reset_sum |-> 0, num_resets |-> 0, num_changes |-> 0,
     stats |-> accum(StatsSummary2D_new, pt.ts, pt.val),
     bounds |-> bounds]

CounterSummary_new(pt, bounds) ==
    [first |-> pt, second |-> pt, penultimate |-> pt, last |-> pt,
     reset_sum |-> 0, num_resets |-> 0, num_changes |-> 0,
     stats |-> accum(StatsSummary2D_new, pt.ts, pt.val),
     bounds |-> bounds]

\* Result<(), Error> of a mutating call: err, or the mutated summary
Err == [err |-> TRUE, val |-> <<>>]
Fine(s) == [err |-> FALSE, val |-> <<s>>]

add_point(s, p) ==
    IF p.ts <= s.last.ts
    THEN Err
    ELSE Fine([s EXCEPT
            !.reset_sum = IF p.val < s.last.val THEN @ + s.last.val ELSE @,
            !.num_resets = IF p.val < s.last.val THEN @ + 1 ELSE @,
            !.num_changes = IF p.val # s.last.val THEN @ + 1 ELSE @,
            !.second = IF s.stats.n = 1 THEN p ELSE @,
            !.penultimate = s.last,
            !.last = p,
            !.stats = accum(@, p.ts, p.val)])

bounds_combine(a, b) == IF IsSome(a) THEN a ELSE b

\* combine that looks for the seam's reset at self.first
combine_seam_at_first(s, o) ==
    IF s.last.ts > o.first.ts
    THEN Err
    ELSE LET reset == o.first.val < s.first.val
             change == o.first.val # s.first.val
         IN Fine([first |-> s.first, second |-> s.second,
                  penultimate |-> o.penultimate, last |-> o.last,
                  reset_sum |-> s.reset_sum + o.reset_sum
                                + (IF reset THEN s.first.val ELSE 0),
                  num_resets |-> s.num_resets + o.num_resets
                                + (IF reset THEN 1 ELSE 0),
                  num_changes |-> s.num_changes + o.num_changes
                                + (IF change THEN 1 ELSE 0),
                  stats |-> stats_combine(s.stats, o.stats),
                  bounds |-> bounds_combine(s.bounds, o.bounds)])

combine(s, o) ==
    IF s.last.ts > o.first.ts
    THEN Err
    ELSE LET reset == o.first.val < s.last.val
             change == o.first.val # s.last.val
         IN Fine([first |-> s.first, second |-> s.second,
                  penultimate |-> o.penultimate, last |-> o.last,
                  reset_sum |-> s.reset_sum + o.reset_sum
                                + (IF reset THEN s.last.val ELSE 0),
                  num_resets |-> s.num_resets + o.num_resets
                                + (IF reset THEN 1 ELSE 0),
                  num_changes |-> s.num_changes + o.num_changes
                                + (IF change THEN 1 ELSE 0),
                  stats |-> stats_combine(s.stats, o.stats),
                  bounds |-> bounds_combine(s.bounds, o.bounds)])

bounds_valid(s) ==
    \/ ~IsSome(s.bounds)
    \/ LET b == Unwrap(s.bounds)
       IN /\ b.left <= b.right
          /\ b.left <= s.first.ts
          /\ s.last.ts < b.right

\* ------------------------------------------------------- CounterSummary
\* the flattened pg type and the crate's summary hold the same fields
to_internal_counter_summary(c) ==
    [first |-> c.first, second |-> c.second, penultimate |-> c.penultimate,
     last |-> c.last, reset_sum |-> c.reset_sum, num_resets |-> c.num_resets,
     num_changes |-> c.num_changes, stats |-> c.stats, bounds |-> c.bounds]

\* from_internal_counter_summary with num_resets and num_changes swapped
from_internal_counter_summary_swapped(st) ==
    [stats |-> st.stats, first |-> st.first, second |-> st.second,
     penultimate |-> st.penultimate, last |-> st.last,
     reset_sum |-> st.reset_sum, num_resets |-> st.num_changes,
     num_changes |-> st.num_resets, bounds |-> st.bounds]

from_internal_counter_summary(st) ==
    [stats |-> st.stats, first |-> st.first, second |-> st.second,
     penultimate |-> st.penultimate, last |-> st.last,
     reset_sum |-> st.reset_sum, num_resets |-> st.num_resets,
     num_changes |-> st.num_changes, bounds |-> st.bounds]

\* ---------------------------------------------- CounterSummaryTransState
CounterSummaryTransState(pb, b, sb) ==
    [point_buffer |-> pb, bounds |-> b, summary_buffer |-> sb]

push_point(st, value) == [st EXCEPT !.point_buffer = Append(@, value)]

\* every order sort_unstable_by_key(|p| p.ts) may leave the buffer in
RECURSIVE sort_points(_)
sort_points(s) ==
    IF s = <<>> THEN {<<>>}
    ELSE LET least == {i \in 1..Len(s) : \A j \in 1..Len(s) : s[i].ts <= s[j].ts}
         IN UNION {{<<s[i]>> \o r : r \in sort_points(Remove(s, i))} : i \in least}

\* every order sort_unstable_by_key(|s| s.first.ts) may leave the buffer in
RECURSIVE sort_summaries(_)
sort_summaries(s) ==
    IF s = <<>> THEN {<<>>}
    ELSE LET least == {i \in 1..Len(s) :
                          \A j \in 1..Len(s) : s[i].first.ts <= s[j].first.ts}
         IN UNION {{<<s[i]>> \o r : r \in sort_summaries(Remove(s, i))} : i \in least}

\* the fold with the Result of add_point dropped instead of unwrapped
RECURSIVE fold_points_unchecked(_, _)
fold_points_unchecked(summary, pts) ==
    IF pts = <<>> THEN Fine(summary)
    ELSE LET r == add_point(summary, Head(pts))
         IN fold_points_unchecked(IF r.err THEN summary ELSE Unwrap(r.val), Tail(pts))

\* for p in iter { summary.add_point(p).unwrap() }
RECURSIVE fold_points(_, _)
fold_points(summary, pts) ==
    IF pts = <<>> THEN Fine(summary)
    ELSE LET r == add_point(summary, Head(pts))
         IN IF r.err THEN Err ELSE fold_points(Unwrap(r.val), Tail(pts))

\* combine_points that leaves the points in the buffer
combine_points_sorted_uncleared(st, sorted) ==
    LET r == fold_points(CounterSummary_new(Head(sorted), st.bounds), Tail(sorted))
    IN IF r.err THEN Panicked
       ELSE IF ~bounds_valid(Unwrap(r.val)) THEN Panicked
       ELSE Ok([st EXCEPT !.point_buffer = sorted,
                          !.summary_buffer = Append(@, Unwrap(r.val))])

\* combine_points that seeds the summary without the state's bounds
combine_points_sorted_unbounded(st, sorted) ==
    LET r == fold_points(CounterSummary_new(Head(sorted), None), Tail(sorted))
    IN IF r.err THEN Panicked
       ELSE IF ~bounds_valid(Unwrap(r.val)) THEN Panicked
       ELSE Ok([st EXCEPT !.point_buffer = <<>>,
                          !.summary_buffer = Append(@, Unwrap(r.val))])

combine_points_sorted(st, sorted) ==
    LET r == fold_points(CounterSummary_new(Head(sorted), st.bounds), Tail(sorted))
    IN IF r.err THEN Panicked
       ELSE IF ~bounds_valid(Unwrap(r.val)) THEN Panicked
       ELSE Ok([st EXCEPT !.point_buffer = <<>>,
                          !.summary_buffer = Append(@, Unwrap(r.val))])

\* combine_points without the sort
combine_points_unsorted(st) ==
    IF st.point_buffer = <<>> THEN {Ok(st)}
    ELSE {combine_points_sorted(st, st.point_buffer)}

combine_points(st) ==
    IF st.point_buffer = <<>> THEN {Ok(st)}
    ELSE {combine_points_sorted(st, sorted) : sorted \in sort_points(st.point_buffer)}

\* push_summary that takes the other state's pending points as well
push_summary_with_points(st, other) ==
    [st EXCEPT !.summary_buffer = @ \o other.summary_buffer,
               !.point_buffer = @ \o other.point_buffer]

push_summary(st, other) ==
    [st EXCEPT !.summary_buffer = @ \o other.summary_buffer]

\* the fold with the Result of combine dropped instead of unwrapped
RECURSIVE fold_summaries_unchecked(_, _)
fold_summaries_unchecked(new_summary, sums) ==
    IF sums = <<>> THEN Fine(new_summary)
    ELSE LET r == combine(new_summary, Head(sums))
         IN fold_summaries_unchecked(IF r.err THEN new_summary ELSE Unwrap(r.val),
                                     Tail(sums))

\* for sum in sum_iter { new_summary.combine(sum).unwrap() }
RECURSIVE fold_summaries(_, _)
fold_summaries(new_summary, sums) ==
    IF sums = <<>> THEN Fine(new_summary)
    ELSE LET r == combine(new_summary, Head(sums))
         IN IF r.err THEN Err ELSE fold_summaries(Unwrap(r.val), Tail(sums))

\* combine_summaries that pushes the folded summary onto the buffer
combine_summaries_sorted_appending(st, sorted) ==
    LET r == fold_summaries(Head(sorted), Tail(sorted))
    IN IF r.err THEN Panicked
       ELSE Ok([st EXCEPT !.summary_buffer = Append(sorted, Unwrap(r.val))])

combine_summaries_sorted(st, sorted) ==
    LET r == fold_summaries(Head(sorted), Tail(sorted))
    IN IF r.err THEN Panicked
       ELSE Ok([st EXCEPT !.summary_buffer = <<Unwrap(r.val)>>])

\* combine_summaries without the sort
combine_summaries_unsorted(st) ==
    {IF o.panic THEN Panicked
     ELSE IF Len(Unwrap(o.val).summary_buffer) <= 1 THEN o
     ELSE combine_summaries_sorted(Unwrap(o.val), Unwrap(o.val).summary_buffer)
        : o \in combine_points(st)}

combine_summaries(st) ==
    UNION {IF o.panic THEN {Panicked}
           ELSE IF Len(Unwrap(o.val).summary_buffer) <= 1 THEN {o}
           ELSE {combine_summaries_sorted(Unwrap(o.val), sorted) :
                    sorted \in sort_summaries(Unwrap(o.val).summary_buffer)}
           : o \in combine_points(st)}

\* ------------------------------------------------ aggregate support functions
\* serde skips point_buffer and bounds: the bytes hold the summary buffer
do_serialize(st) == [summary_buffer |-> st.summary_buffer]

do_deserialize(bytes) == CounterSummaryTransState(<<>>, None, bytes.summary_buffer)

\* serialize without combine_summaries first
counter_summary_trans_serialize_unflushed(state) == {Ok(do_serialize(state))}

\* serialize that flushes the points but does not fold the summaries
counter_summary_trans_serialize_points_only(state) ==
    {IF o.panic THEN Panicked ELSE Ok(do_serialize(Unwrap(o.val)))
        : o \in combine_points(state)}

counter_summary_trans_serialize(state) ==
    {IF o.panic THEN Panicked ELSE Ok(do_serialize(Unwrap(o.val)))
        : o \in combine_summaries(state)}

counter_summary_trans_deserialize(bytes) == do_deserialize(bytes)

\* counter_agg_trans that creates the state, bounds and all, on a null row
counter_agg_trans_null_seeds(state, ts, val, bounds) ==
    IF ~IsSome(val) \/ ~IsSome(ts)
    THEN IF IsSome(state) THEN state
         ELSE Some(CounterSummaryTransState(<<>>, bounds, <<>>))
    ELSE LET p == [ts |-> Unwrap(ts), val |-> Unwrap(val)]
         IN IF ~IsSome(state)
            THEN Some(push_point(CounterSummaryTransState(<<>>, bounds, <<>>), p))
            ELSE Some(push_point(Unwrap(state), p))

\* counter_agg_trans that takes the bounds of every row that carries some
counter_agg_trans_rebounds(state, ts, val, bounds) ==
    IF ~IsSome(val) \/ ~IsSome(ts) THEN state
    ELSE LET p == [ts |-> Unwrap(ts), val |-> Unwrap(val)]
         IN IF ~IsSome(state)
            THEN Some(push_point(CounterSummaryTransState(<<>>, bounds, <<>>), p))
            ELSE Some(push_point([Unwrap(state) EXCEPT
                                    !.bounds = IF IsSome(bounds) THEN bounds ELSE @], p))

counter_agg_trans(state, ts, val, bounds) ==
    IF ~IsSome(val) \/ ~IsSome(ts) THEN state
    ELSE LET p == [ts |-> Unwrap(ts), val |-> Unwrap(val)]
         IN IF ~IsSome(state)
            THEN Some(push_point(CounterSummaryTransState(<<>>, bounds, <<>>), p))
            ELSE Some(push_point(Unwrap(state), p))

\* counter_agg_trans_no_bounds that passes a range on
counter_agg_trans_no_bounds_ranged(state, ts, val) ==
    counter_agg_trans(state, ts, val, Some(Range))

counter_agg_trans_no_bounds(state, ts, val) == counter_agg_trans(state, ts, val, None)

counter_agg_summary_trans(state, value) ==
    IF ~IsSome(value) THEN state
    ELSE IF ~IsSome(state)
    THEN Some(CounterSummaryTransState(<<>>, None,
                  <<to_internal_counter_summary(Unwrap(value))>>))
    ELSE Some([Unwrap(state) EXCEPT
                  !.summary_buffer = Append(@, to_internal_counter_summary(Unwrap(value)))])

\* combine that forgets push_summary in its last arm
counter_agg_combine_no_push(state1, state2) ==
    IF ~IsSome(state1) /\ ~IsSome(state2) THEN {Ok(None)}
    ELSE IF ~IsSome(state1)
    THEN {IF o.panic THEN Panicked ELSE Ok(o.val) : o \in combine_points(Unwrap(state2))}
    ELSE IF ~IsSome(state2)
    THEN {IF o.panic THEN Panicked ELSE Ok(o.val) : o \in combine_points(Unwrap(state1))}
    ELSE {IF o1.panic \/ o2.panic THEN Panicked ELSE Ok(o2.val)
             : o1 \in combine_points(Unwrap(state1)),
               o2 \in combine_points(Unwrap(state2))}

counter_agg_combine(state1, state2) ==
    IF ~IsSome(state1) /\ ~IsSome(state2) THEN {Ok(None)}
    ELSE IF ~IsSome(state1)
    THEN {IF o.panic THEN Panicked ELSE Ok(o.val) : o \in combine_points(Unwrap(state2))}
    ELSE IF ~IsSome(state2)
    THEN {IF o.panic THEN Panicked ELSE Ok(o.val) : o \in combine_points(Unwrap(state1))}
    ELSE {IF o1.panic \/ o2.panic THEN Panicked
          ELSE Ok(Some(push_summary(Unwrap(o2.val), Unwrap(o1.val))))
             : o1 \in combine_points(Unwrap(state1)),
               o2 \in combine_points(Unwrap(state2))}

\* final without combine_summaries first
counter_agg_final_uncombined(state) ==
    IF ~IsSome(state) THEN {Ok(None)}
    ELSE LET sb == Unwrap(state).summary_buffer
         IN IF sb = <<>> THEN {Ok(None)}
            ELSE IF ~bounds_valid(sb[Len(sb)]) THEN {Panicked}
            ELSE {Ok(Some(from_internal_counter_summary(sb[Len(sb)])))}

counter_agg_final(state) ==
    IF ~IsSome(state) THEN {Ok(None)}
    ELSE {IF o.panic THEN Panicked
          ELSE LET sb == Unwrap(o.val).summary_buffer
               IN IF sb = <<>> THEN Ok(None)
                  ELSE IF ~bounds_valid(sb[Len(sb)]) THEN Panicked
                  ELSE Ok(Some(from_internal_counter_summary(sb[Len(sb)])))
             : o \in combine_summaries(Unwrap(state))}

\* ------------------------------------------------------ states as objects
\* The functions above return the value a state ends with.  Below, a state
\* is an object: mem is the sequence of the transition states that exist,
\* an Internal<CounterSummaryTransState> is an index into it, and a call
\* yields [panic, mem, ret]: how it ended, the objects it left, its result.

\* combine_points that pushes the summary before it checks the bounds
combine_points_exit_push_first(st) ==
    IF st.point_buffer = <<>> THEN {[panic |-> FALSE, self |-> st]}
    ELSE {LET o == combine_points_sorted(st, sorted)
              folded == fold_points(CounterSummary_new(Head(sorted), st.bounds),
                                    Tail(sorted))
          IN IF ~o.panic THEN [panic |-> FALSE, self |-> Unwrap(o.val)]
             ELSE IF folded.err
             THEN [panic |-> TRUE, self |-> [st EXCEPT !.point_buffer = sorted]]
             ELSE [panic |-> TRUE,
                   self |-> [st EXCEPT !.point_buffer = <<>>,
                                       !.summary_buffer = Append(@, Unwrap(folded.val))]]
          : sorted \in sort_points(st.point_buffer)}

\* how combine_points ends on *self, by return or by panic, and what it
\* leaves in *self: the buffer is sorted in place, cleared before the bounds
\* are checked, and the summary is pushed last
combine_points_exit(st) ==
    IF st.point_buffer = <<>> THEN {[panic |-> FALSE, self |-> st]}
    ELSE {LET o == combine_points_sorted(st, sorted)
              folded == fold_points(CounterSummary_new(Head(sorted), st.bounds),
                                    Tail(sorted))
          IN IF ~o.panic THEN [panic |-> FALSE, self |-> Unwrap(o.val)]
             ELSE [panic |-> TRUE,
                   self |-> [st EXCEPT !.point_buffer =
                                          IF folded.err THEN sorted ELSE <<>>]]
          : sorted \in sort_points(st.point_buffer)}

\* how combine_summaries ends on *self: the summaries are sorted in place
\* and replaced by the folded one only when every combine went through
combine_summaries_exit(st) ==
    UNION {IF o.panic \/ Len(o.self.summary_buffer) <= 1 THEN {o}
           ELSE {LET c == combine_summaries_sorted(o.self, sorted)
                 IN IF c.panic
                    THEN [panic |-> TRUE,
                          self |-> [o.self EXCEPT !.summary_buffer = sorted]]
                    ELSE [panic |-> FALSE, self |-> Unwrap(c.val)]
                 : sorted \in sort_summaries(o.self.summary_buffer)}
           : o \in combine_points_exit(st)}

\* a state with nothing in it, as counter_agg_trans makes one before it
\* pushes the first point
Empty == CounterSummaryTransState(<<>>, None, <<>>)

\* debug_assert!(state.summary_buffer.len() <= 1)
debug_assert_holds(st) == Len(st.summary_buffer) <= 1

\* state.clone(): a new object holding a deep copy of the state
clone_state(mem, r) == [mem |-> Append(mem, mem[r]), ref |-> Len(mem) + 1]

\* the state an Option<Internal<..>> argument refers to
Deref(mem, state) == IF IsSome(state) THEN Some(mem[Unwrap(state)]) ELSE None

\* a call of f on an object: the state it returns, which is the object
\* passed in, mutated, or a new object when none was passed
InPlace(mem, state, out) ==
    IF ~IsSome(out) THEN [panic |-> FALSE, mem |-> mem, ret |-> None]
    ELSE IF IsSome(state)
    THEN [panic |-> FALSE, mem |-> [mem EXCEPT ![Unwrap(state)] = Unwrap(out)],
          ret |-> state]
    ELSE [panic |-> FALSE, mem |-> Append(mem, Unwrap(out)), ret |-> Some(Len(mem) + 1)]

counter_agg_trans_at(mem, state, ts, val, bounds) ==
    InPlace(mem, state, counter_agg_trans(Deref(mem, state), ts, val, bounds))

counter_agg_summary_trans_at(mem, state, value) ==
    InPlace(mem, state, counter_agg_summary_trans(Deref(mem, state), value))

\* self.combine_points(), self.combine_summaries(), self.push_summary(&other)
combine_points_at(mem, self) ==
    {[panic |-> o.panic, mem |-> [mem EXCEPT ![self] = o.self], ret |-> None]
        : o \in combine_points_exit(mem[self])}

combine_summaries_at(mem, self) ==
    {[panic |-> o.panic, mem |-> [mem EXCEPT ![self] = o.self], ret |-> None]
        : o \in combine_summaries_exit(mem[self])}

push_summary_at(mem, self, other) ==
    {[panic |-> FALSE, mem |-> [mem EXCEPT ![self] = push_summary(mem[self], mem[other])],
      ret |-> None]}

\* the end of a call that began with the objects mem0: its local states are
\* dropped, the state it returns is moved into a new object (s.into())
Leave(mem0, o) ==
    IF IsSome(o.ret) /\ Unwrap(o.ret) > Len(mem0)
    THEN [panic |-> o.panic,
          mem |-> Append(SubSeq(o.mem, 1, Len(mem0)), o.mem[Unwrap(o.ret)]),
          ret |-> Some(Len(mem0) + 1)]
    ELSE [panic |-> o.panic, mem |-> SubSeq(o.mem, 1, Len(mem0)), ret |-> o.ret]

\* one arm of counter_agg_combine with a single state: clone it, combine
\* its points, return the clone
combine_one(mem, r) ==
    LET c == clone_state(mem, r)
    IN {[panic |-> o.panic, mem |-> [c.mem EXCEPT ![c.ref] = o.self],
         ret |-> IF o.panic THEN None ELSE Some(c.ref)]
           : o \in combine_points_exit(c.mem[c.ref])}

\* the arm with two states: s1, s2 are clones, s2 takes s1's summaries
combine_both(mem, r1, r2) ==
    UNION {IF o1.panic THEN {o1}
           ELSE UNION {IF o2.panic THEN {o2}
                       ELSE {[p EXCEPT !.ret = o2.ret]
                               : p \in push_summary_at(o2.mem, Unwrap(o2.ret),
                                                       Unwrap(o1.ret))}
                          : o2 \in combine_one(o1.mem, r2)}
              : o1 \in combine_one(mem, r1)}

\* combine that returns none unless both states are there
counter_agg_combine_at_both_only(mem, state1, state2) ==
    IF ~IsSome(state1) \/ ~IsSome(state2)
    THEN {[panic |-> FALSE, mem |-> mem, ret |-> None]}
    ELSE {Leave(mem, o) : o \in combine_both(mem, Unwrap(state1), Unwrap(state2))}

counter_agg_combine_at(mem, state1, state2) ==
    IF ~IsSome(state1) /\ ~IsSome(state2)
    THEN {[panic |-> FALSE, mem |-> mem, ret |-> None]}
    ELSE {Leave(mem, o) :
            o \in IF ~IsSome(state1) THEN combine_one(mem, Unwrap(state2))
                  ELSE IF ~IsSome(state2) THEN combine_one(mem, Unwrap(state1))
                  ELSE combine_both(mem, Unwrap(state1), Unwrap(state2))}

\* counter_agg_final that works on the state it was handed
counter_agg_final_at_in_place(mem, state) ==
    IF ~IsSome(state) THEN {[panic |-> FALSE, mem |-> mem, ret |-> None]}
    ELSE {LET sb == o.self.summary_buffer
              left == [mem EXCEPT ![Unwrap(state)] = o.self]
              popped == [mem EXCEPT ![Unwrap(state)] =
                            [o.self EXCEPT !.summary_buffer = SubSeq(sb, 1, Len(sb) - 1)]]
          IN IF o.panic THEN [panic |-> TRUE, mem |-> left, ret |-> None]
             ELSE IF sb = <<>> THEN [panic |-> FALSE, mem |-> left, ret |-> None]
             ELSE IF ~bounds_valid(sb[Len(sb)])
             THEN [panic |-> TRUE, mem |-> popped, ret |-> None]
             ELSE [panic |-> FALSE, mem |-> popped,
                   ret |-> Some(from_internal_counter_summary(sb[Len(sb)]))]
          : o \in combine_summaries_exit(mem[Unwrap(state)])}

\* counter_agg_final: the summary comes off a clone of the state
counter_agg_final_at(mem, state) ==
    IF ~IsSome(state) THEN {[panic |-> FALSE, mem |-> mem, ret |-> None]}
    ELSE LET c == clone_state(mem, Unwrap(state))
         IN {LET sb == o.self.summary_buffer
                 left == [c.mem EXCEPT ![c.ref] = o.self]
                 kept == SubSeq(left, 1, Len(mem))
             IN IF o.panic THEN [panic |-> TRUE, mem |-> kept, ret |-> None]
                ELSE IF sb = <<>> THEN [panic |-> FALSE, mem |-> kept, ret |-> None]
                ELSE IF ~bounds_valid(sb[Len(sb)])
                THEN [panic |-> TRUE, mem |-> kept, ret |-> None]
                ELSE [panic |-> FALSE, mem |-> kept,
                      ret |-> Some(from_internal_counter_summary(sb[Len(sb)]))]
             : o \in combine_summaries_exit(c.mem[c.ref])}

\* ---------------------------------------------------------------- accessors
\* delta, time_delta of the crate's summary
delta(s) == s.last.val - s.first.val + s.reset_sum

time_delta(s) == (s.last.ts - s.first.ts) \div USECS_PER_SEC

counter_agg_delta(summary) == delta(to_internal_counter_summary(summary))

\* counter_agg_time_delta that calls delta()
counter_agg_time_delta_as_delta(summary) == delta(to_internal_counter_summary(summary))

counter_agg_time_delta(summary) == time_delta(to_internal_counter_summary(summary))

counter_agg_num_elements(summary) == to_internal_counter_summary(summary).stats.n

counter_agg_num_changes(summary) == to_internal_counter_summary(summary).num_changes

counter_agg_num_resets(summary) == to_internal_counter_summary(summary).num_resets

\* an f64 that is a quotient is kept as the fraction num / den
Frac(n, d) == [num |-> n, den |-> d]

\* rate, the edge deltas and rates of the crate's summary
rate(s) ==
    IF s.stats.n < 2 THEN None ELSE Some(Frac(delta(s), time_delta(s)))

idelta_left(s) ==
    IF s.second.val >= s.first.val THEN s.second.val - s.first.val ELSE s.second.val

idelta_right(s) ==
    IF s.last.val >= s.penultimate.val THEN s.last.val - s.penultimate.val
    ELSE s.last.val

irate_left(s) ==
    IF s.stats.n < 2 THEN None
    ELSE Some(Frac(idelta_left(s), (s.second.ts - s.first.ts) \div USECS_PER_SEC))

irate_right(s) ==
    IF s.stats.n < 2 THEN None
    ELSE Some(Frac(idelta_right(s), (s.last.ts - s.penultimate.ts) \div USECS_PER_SEC))

\* the window the Prometheus method extrapolates to: the bounds, a
\* millisecond short on the right
prometheus_window(s) ==
    (Unwrap(s.bounds).right - Unwrap(s.bounds).left) \div USECS_PER_MSEC
        - PrometheusTrimMsecs

\* the time from the first to the last point, in milliseconds
sampled_interval(s) == (s.last.ts - s.first.ts) \div USECS_PER_MSEC

\* Result<Option<f64>, Error>: no result without bounds or with fewer than
\* two points, an error when the bounds do not hold the points, else the
\* observed delta projected to the window; the rate is that delta per
\* second of the window
prometheus_delta(s) ==
    IF ~IsSome(s.bounds) \/ s.stats.n < 2 THEN Fine(None)
    ELSE IF ~bounds_valid(s) THEN Err
    ELSE Fine(Some(Frac(delta(s) * prometheus_window(s), sampled_interval(s))))

prometheus_rate(s) ==
    IF ~IsSome(s.bounds) \/ s.stats.n < 2 THEN Fine(None)
    ELSE IF ~bounds_valid(s) THEN Err
    ELSE Fine(Some(Frac(delta(s) * MSECS_PER_SEC, sampled_interval(s))))

\* rate computed from delta and time_delta whatever the point count
counter_agg_rate_unchecked(summary) ==
    Some(Frac(delta(to_internal_counter_summary(summary)),
              time_delta(to_internal_counter_summary(summary))))

counter_agg_rate(summary) == rate(to_internal_counter_summary(summary))

counter_agg_irate_left(summary) == irate_left(to_internal_counter_summary(summary))

counter_agg_irate_right(summary) == irate_right(to_internal_counter_summary(summary))

counter_agg_idelta_left(summary) == idelta_left(to_internal_counter_summary(summary))

counter_agg_idelta_right(summary) == idelta_right(to_internal_counter_summary(summary))

\* with_bounds that forgets to assign the bounds
counter_agg_with_bounds_unset(summary, bounds) ==
    from_internal_counter_summary(to_internal_counter_summary(summary))

counter_agg_with_bounds(summary, bounds) ==
    from_internal_counter_summary(
        [to_internal_counter_summary(summary) EXCEPT !.bounds = Some(bounds)])

\* a method name is a string of characters
to_lowercase_char(c) ==
    CASE c = "P" -> "p" [] c = "R" -> "r" [] c = "O" -> "o" [] c = "M" -> "m"
      [] c = "E" -> "e" [] c = "T" -> "t" [] c = "H" -> "h" [] c = "U" -> "u"
      [] c = "S" -> "s" [] c = "L" -> "l" [] c = "I" -> "i" [] c = "N" -> "n"
      [] c = "A" -> "a" [] OTHER -> c

to_lowercase(str) == [i \in 1..Len(str) |-> to_lowercase_char(str[i])]

is_whitespace(c) == c \in {" ", "\t", "\n"}

RECURSIVE trim_start(_)
trim_start(str) ==
    IF str # <<>> /\ is_whitespace(Head(str)) THEN trim_start(Tail(str)) ELSE str

RECURSIVE trim_end(_)
trim_end(str) ==
    IF str # <<>> /\ is_whitespace(str[Len(str)])
    THEN trim_end(SubSeq(str, 1, Len(str) - 1)) ELSE str

trim(str) == trim_end(trim_start(str))

\* as_method that matches the string as it is given, untrimmed
as_method_untrimmed(method) ==
    IF to_lowercase(method) = <<"p", "r", "o", "m", "e", "t", "h", "e", "u", "s">>
    THEN Some("Prometheus") ELSE None

as_method(method) ==
    IF to_lowercase(trim(method)) = <<"p", "r", "o", "m", "e", "t", "h", "e", "u", "s">>
    THEN Some("Prometheus") ELSE None

\* pgx::error! on an unknown method
method_kind(method) ==
    IF IsSome(as_method(method)) THEN Ok(Unwrap(as_method(method))) ELSE Panicked

\* the outcome of the call: Ok(Option<f64>), or the error of method_kind or
\* of the unwrap
\* extrapolated_delta that unwraps the Option as well
counter_agg_extrapolated_delta_strict(summary, method) ==
    IF method_kind(method).panic THEN Panicked
    ELSE LET r == prometheus_delta(to_internal_counter_summary(summary))
         IN IF r.err \/ ~IsSome(Unwrap(r.val)) THEN Panicked ELSE Ok(Unwrap(r.val))

counter_agg_extrapolated_delta(summary, method) ==
    IF method_kind(method).panic THEN Panicked
    ELSE LET r == prometheus_delta(to_internal_counter_summary(summary))
         IN IF r.err THEN Panicked ELSE Ok(Unwrap(r.val))

counter_agg_extrapolated_rate(summary, method) ==
    IF method_kind(method).panic THEN Panicked
    ELSE LET r == prometheus_rate(to_internal_counter_summary(summary))
         IN IF r.err THEN Panicked ELSE Ok(Unwrap(r.val))

\* ------------------------------------------------------------ the executor
\* PostgreSQL runs counter_agg(ts, value [, bounds]) over the rows it hands to
\* each worker and combines the partial states into the leader's state, which
\* starts absent, then finalizes it.  Worker 1 aggregates in the leader's
\* process; worker 2 is remote, its state travels serialized.  A plan without
\* partial aggregation finalizes worker 1's state.
Workers == {1, 2}
Remote == {2}

VARIABLES
    state,      \* worker -> Option<CounterSummaryTransState>
    wstat,      \* worker -> "scan" | "wire" | "recv" | "combined"
    wire,       \* worker -> Option<bytes>
    leader,     \* Option<CounterSummaryTransState>: the leader's combine state
    final,      \* Option<outcome of the aggregate>: Ok(Option<CounterSummary>) or Panicked
    rows,       \* history: worker -> the non-null points it was fed, in order
    qbounds,    \* the query's bounds argument on the rows that start a state
    \* rollup(agg) over the summaries of a grouped counter_agg(ts, val) subquery
    grp,        \* Option<CounterSummaryTransState>: the state of the group being scanned
    grows,      \* history: the points of each group, the open one last
    partials,   \* the CounterSummary of each finished group
    fedn,       \* how many of partials rollup has taken
    roll,       \* Option<CounterSummaryTransState>: rollup's state
    rollout,    \* Option<outcome of the rollup query>
    \* the crate's summaries under new, add_point and combine
    chain,      \* up to three summaries, each no earlier than the one before
    assoc,      \* Option<[left, right]>: the chain combined in both groupings
    tried,      \* Option<[rel, err, same]>: the last add_point: where its point
                \* lay in time relative to last, whether it returned Err, and
                \* whether the summary is as it was before the call
    \* one query: counter_agg over a table, with_bounds and the accessors on
    \* its result
    qsig,       \* 2: counter_agg(ts, val); 3: counter_agg(ts, val, bounds)
    qst,        \* Option<CounterSummaryTransState>: the aggregate's state
    created,    \* history: Option<the bounds argument of the row that created qst>
    differs,    \* history: a later row carried another bounds argument
    qout,       \* Option<outcome of counter_agg_final>
    bounded,    \* Option<[bounds, summary]>: with_bounds on the result
    shown,      \* Option<[on, method, ...]>: what the accessors returned
    mem,        \* the transition states that exist, as objects
    call        \* Option<[op, args, before, after, panic, ret, again]>: the last
                \* call on the objects, and the same call made once more

execVars == <<state, wstat, wire, leader, final, rows, qbounds>>
rollVars == <<grp, grows, partials, fedn, roll, rollout>>
apiVars == <<chain, assoc, tried>>
queryVars == <<qsig, qst, created, differs, qout, bounded, shown>>
objVars == <<mem, call>>
vars == <<execVars, rollVars, apiVars, queryVars, objVars>>

NumRows == Len(rows[1]) + Len(rows[2])

InitRollup ==
    /\ grp = None
    /\ grows = <<>>
    /\ partials = <<>>
    /\ fedn = 0
    /\ roll = None
    /\ rollout = None

InitApi ==
    /\ chain = <<>>
    /\ assoc = None
    /\ tried = None

InitQuery ==
    /\ qst = None
    /\ created = None
    /\ differs = FALSE
    /\ qout = None
    /\ bounded = None
    /\ shown = None

InitObj ==
    /\ mem = <<>>
    /\ call = None

InitExec ==
    /\ state = [w \in Workers |-> None]
    /\ wstat = [w \in Workers |-> "scan"]
    /\ wire = [w \in Workers |-> None]
    /\ leader = None
    /\ final = None
    /\ rows = [w \in Workers |-> <<>>]

Init ==
    /\ InitExec
    /\ qbounds \in BoundsArgs
    /\ InitRollup
    /\ InitApi
    /\ InitQuery /\ qsig = 3
    /\ InitObj

Running == ~IsSome(final)

\* sfunc: one row of the scan; the bounds argument of a row that meets an
\* existing state is arbitrary
Trans(w, ts, val, bounds) ==
    /\ Running
    /\ IsSome(state[w]) \/ bounds = qbounds
    /\ \A x \in Workers : wstat[x] = "scan"
    /\ NumRows < MaxRows
    /\ state' = [state EXCEPT ![w] = counter_agg_trans(state[w], ts, val, bounds)]
    /\ IF IsSome(ts) /\ IsSome(val)
       THEN rows' = [rows EXCEPT ![w] =
                        Append(@, [ts |-> Unwrap(ts), val |-> Unwrap(val)])]
       ELSE UNCHANGED rows
    /\ UNCHANGED <<wstat, wire, leader, final, qbounds, rollVars, apiVars, queryVars, objVars>>

\* serialfunc on a worker's finished partial state
Serialize(w) ==
    /\ Running
    /\ wstat[w] = "scan"
    /\ IsSome(state[w])
    /\ \E o \in counter_summary_trans_serialize(Unwrap(state[w])) :
          IF o.panic
          THEN /\ final' = Some(Panicked)
               /\ UNCHANGED <<state, wstat, wire>>
          ELSE /\ wire' = [wire EXCEPT ![w] = o.val]
               /\ state' = [state EXCEPT ![w] = None]
               /\ wstat' = [wstat EXCEPT ![w] = "wire"]
               /\ UNCHANGED final
    /\ UNCHANGED <<leader, rows, qbounds, rollVars, apiVars, queryVars, objVars>>

\* deserialfunc in the leader
Deserialize(w) ==
    /\ Running
    /\ wstat[w] = "wire"
    /\ state' = [state EXCEPT ![w] =
                    Some(counter_summary_trans_deserialize(Unwrap(wire[w])))]
    /\ wire' = [wire EXCEPT ![w] = None]
    /\ wstat' = [wstat EXCEPT ![w] = "recv"]
    /\ UNCHANGED <<leader, final, rows, qbounds, rollVars, apiVars, queryVars, objVars>>

\* combinefunc(leader state, worker w's partial state); an absent state of a
\* remote worker reaches the leader as NULL, without serialization
Combine(w) ==
    /\ Running
    /\ \/ wstat[w] = "recv"
       \/ wstat[w] = "scan" /\ (w \notin Remote \/ ~IsSome(state[w]))
    /\ \E o \in counter_agg_combine(leader, state[w]) :
          IF o.panic
          THEN /\ final' = Some(Panicked)
               /\ UNCHANGED <<leader, wstat>>
          ELSE /\ leader' = Unwrap(o.val)
               /\ wstat' = [wstat EXCEPT ![w] = "combined"]
               /\ UNCHANGED final
    /\ UNCHANGED <<state, wire, rows, qbounds, rollVars, apiVars, queryVars, objVars>>

\* finalfunc on the leader's state, once every partial state is combined
Final ==
    /\ Running
    /\ \A w \in Workers : wstat[w] = "combined"
    /\ \E o \in counter_agg_final(leader) : final' = Some(o)
    /\ UNCHANGED <<state, wstat, wire, leader, rows, qbounds, rollVars, apiVars, queryVars, objVars>>

\* finalfunc of a plan without partial aggregation: worker 1 saw every row
FinalDirect ==
    /\ Running
    /\ \A w \in Workers : wstat[w] = "scan"
    /\ rows[2] = <<>>
    /\ \E o \in counter_agg_final(state[1]) : final' = Some(o)
    /\ UNCHANGED <<state, wstat, wire, leader, rows, qbounds, rollVars, apiVars, queryVars, objVars>>

Next ==
    \/ \E w \in Workers, ts \in {None} \cup {Some(x) : x \in Timestamps},
          val \in {None} \cup {Some(x) : x \in Values}, bounds \in BoundsArgs :
          Trans(w, ts, val, bounds)
    \/ \E w \in Remote : Serialize(w)
    \/ \E w \in Remote : Deserialize(w)
    \/ \E w \in Workers : Combine(w)
    \/ Final
    \/ FinalDirect

Spec == Init /\ [][Next]_vars

\* ------------------------------------------------------------ the rollup
\* SELECT rollup(agg) FROM (SELECT counter_agg(ts, val) AS agg ... GROUP BY
\* ...): the subquery aggregates one group after the other, in any order of
\* the groups, and hands each group's summary to rollup as it is finished.
RollupRunning == ~IsSome(rollout)

RECURSIVE Flatten(_)
Flatten(ss) == IF ss = <<>> THEN <<>> ELSE Head(ss) \o Flatten(Tail(ss))

\* sfunc of the subquery's counter_agg: one row of the group being scanned
GroupTrans(ts, val) ==
    /\ RollupRunning
    /\ fedn = Len(partials)
    /\ Len(Flatten(grows)) < MaxRows
    /\ grp' = counter_agg_trans_no_bounds(grp, ts, val)
    /\ IF IsSome(ts) /\ IsSome(val)
       THEN LET p == [ts |-> Unwrap(ts), val |-> Unwrap(val)]
            IN grows' = IF IsSome(grp)
                        THEN [grows EXCEPT ![Len(grows)] = Append(@, p)]
                        ELSE Append(grows, <<p>>)
       ELSE UNCHANGED grows
    /\ UNCHANGED <<partials, fedn, roll, rollout, execVars, apiVars, queryVars, objVars>>

\* finalfunc of the subquery's counter_agg: the group's summary
GroupFinal ==
    /\ RollupRunning
    /\ IsSome(grp)
    /\ \E o \in counter_agg_final(grp) :
          IF o.panic
          THEN /\ rollout' = Some(Panicked)
               /\ UNCHANGED <<partials, grp>>
          ELSE /\ partials' = partials \o Unwrap(o.val)
               /\ grp' = None
               /\ UNCHANGED rollout
    /\ UNCHANGED <<grows, fedn, roll, execVars, apiVars, queryVars, objVars>>

\* sfunc of rollup: the summary of the group just finished
RollupTrans ==
    /\ RollupRunning
    /\ fedn < Len(partials)
    /\ roll' = counter_agg_summary_trans(roll, Some(partials[fedn + 1]))
    /\ fedn' = fedn + 1
    /\ UNCHANGED <<grp, grows, partials, rollout, execVars, apiVars, queryVars, objVars>>

\* sfunc of rollup on a NULL summary
RollupTransNull ==
    /\ RollupRunning
    /\ roll' = counter_agg_summary_trans(roll, None)
    /\ UNCHANGED <<grp, grows, partials, fedn, rollout, execVars, apiVars, queryVars, objVars>>

\* finalfunc of rollup
RollupFinal ==
    /\ RollupRunning
    /\ ~IsSome(grp) /\ fedn = Len(partials)
    /\ \E o \in counter_agg_final(roll) : rollout' = Some(o)
    /\ UNCHANGED <<grp, grows, partials, fedn, roll, execVars, apiVars, queryVars, objVars>>

NextRollup ==
    \/ \E ts \in {None} \cup {Some(x) : x \in Timestamps},
          val \in {None} \cup {Some(x) : x \in Values} : GroupTrans(ts, val)
    \/ GroupFinal
    \/ RollupTrans
    \/ RollupTransNull
    \/ RollupFinal

\* the grouped subquery calls counter_agg(ts, val): no bounds
InitRollupQuery ==
    /\ InitExec
    /\ qbounds = None
    /\ InitRollup
    /\ InitApi
    /\ InitQuery /\ qsig = 3
    /\ InitObj

SpecRollup == InitRollupQuery /\ [][NextRollup]_vars

\* ------------------------------------------------------- the summary itself
\* InternalCounterSummary under its own operations: a chain of summaries is
\* built with new and add_point, each starting no earlier than the one before
\* ends, and then combined in both groupings.
ChainRunning == ~IsSome(assoc)

NewSummary(p, bounds) ==
    /\ ChainRunning
    /\ Len(chain) < 3
    /\ chain # <<>> => chain[Len(chain)].last.ts <= p.ts
    /\ chain' = Append(chain, CounterSummary_new(p, bounds))
    /\ tried' = None
    /\ UNCHANGED <<assoc, execVars, rollVars, queryVars, objVars>>

\* where the point p lies in time relative to the last point of s
Relative(p, s) ==
    IF p.ts < s.last.ts THEN "lower"
    ELSE IF p.ts = s.last.ts THEN "equal" ELSE "greater"

\* add_point on the newest summary; on Err the summary stays as it was
AddPoint(p) ==
    /\ ChainRunning
    /\ chain # <<>>
    /\ LET r == add_point(chain[Len(chain)], p)
       IN /\ chain' = IF r.err THEN chain
                      ELSE [chain EXCEPT ![Len(chain)] = Unwrap(r.val)]
          /\ tried' = Some([rel |-> Relative(p, chain[Len(chain)]), err |-> r.err,
                            same |-> chain' = chain])
    /\ UNCHANGED <<assoc, execVars, rollVars, queryVars, objVars>>

\* a.combine(&b) then .combine(&c), and b.combine(&c) then a.combine(&bc)
combine_then(r, o) == IF r.err THEN Err ELSE combine(Unwrap(r.val), o)
combine_into(s, r) == IF r.err THEN Err ELSE combine(s, Unwrap(r.val))

CombineChain ==
    /\ ChainRunning
    /\ Len(chain) = 3
    /\ assoc' = Some([left |-> combine_then(combine(chain[1], chain[2]), chain[3]),
                      right |-> combine_into(chain[1], combine(chain[2], chain[3]))])
    /\ tried' = None
    /\ UNCHANGED <<chain, execVars, rollVars, queryVars, objVars>>

NextCombine ==
    \/ \E p \in TSPoint, bounds \in BoundsArgs : NewSummary(p, bounds)
    \/ \E p \in TSPoint : AddPoint(p)
    \/ CombineChain

InitCombine ==
    /\ InitExec
    /\ qbounds = None
    /\ InitRollup
    /\ InitApi
    /\ InitQuery /\ qsig = 3
    /\ InitObj

SpecCombine == InitCombine /\ [][NextCombine]_vars

\* ---------------------------------------------------------------- one query
\* SELECT counter_agg(ts, val [, bounds]) FROM test, in one process, then
\* with_bounds and the accessors on the summary it returns.
QueryRunning == ~IsSome(qout)

\* the bounds argument of with_bounds
WithBoundsArgs == {Range}

\* method names: the one the tests use, one padded and in capitals, one in
\* mixed case between a tab and a newline, one unknown, one with a blank
\* inside
Methods ==
    {<<"p", "r", "o", "m", "e", "t", "h", "e", "u", "s">>,
     <<" ", "P", "R", "O", "M", "E", "T", "H", "E", "U", "S", " ">>,
     <<"\t", "P", "r", "o", "M", "e", "t", "h", "e", "u", "S", "\n">>,
     <<"l", "i", "n", "e", "a", "r">>,
     <<"p", "r", "o", " ", "m", "e", "t", "h", "e", "u", "s">>}

\* what the row's bounds argument does to the history
Seen(bounds, st) ==
    /\ created' = IF ~IsSome(qst) /\ IsSome(st) THEN Some(bounds) ELSE created
    /\ differs' = (differs \/ (IsSome(qst) /\ bounds # Unwrap(created)))

\* sfunc of counter_agg(ts, val, bounds): one row
QTrans(ts, val, bounds) ==
    /\ QueryRunning /\ qsig = 3
    /\ IsSome(qst) => Len(Unwrap(qst).point_buffer) < MaxRows
    /\ LET st == counter_agg_trans(qst, ts, val, bounds)
       IN qst' = st /\ Seen(bounds, st)
    /\ UNCHANGED <<qsig, qout, bounded, shown, execVars, rollVars, apiVars, objVars>>

\* sfunc of counter_agg(ts, val): one row
QTransNoBounds(ts, val) ==
    /\ QueryRunning /\ qsig = 2
    /\ IsSome(qst) => Len(Unwrap(qst).point_buffer) < MaxRows
    /\ LET st == counter_agg_trans_no_bounds(qst, ts, val)
       IN qst' = st /\ Seen(None, st)
    /\ UNCHANGED <<qsig, qout, bounded, shown, execVars, rollVars, apiVars, objVars>>

\* finalfunc
QFinal ==
    /\ QueryRunning
    /\ \E o \in counter_agg_final(qst) : qout' = Some(o)
    /\ UNCHANGED <<qsig, qst, created, differs, bounded, shown, execVars, rollVars, apiVars, objVars>>

\* the summary the accessors are applied to
Target == IF IsSome(bounded) THEN Unwrap(bounded).summary ELSE ResultOf(qout)

\* with_bounds(summary, bounds) on the aggregate's result
QWithBounds(bounds) ==
    /\ Returned(qout) /\ ~IsSome(bounded)
    /\ bounded' = Some([bounds |-> bounds,
                        summary |-> counter_agg_with_bounds(ResultOf(qout), bounds)])
    /\ UNCHANGED <<qsig, qst, created, differs, qout, shown, execVars, rollVars, apiVars, objVars>>

\* every accessor, each called on the summary; a strict function returning
\* f64 yields a non-null datum, one returning Option<f64> a datum or NULL
QAccess(method) ==
    /\ Returned(qout)
    /\ shown' = Some([on |-> Target, method |-> method,
                      delta |-> Some(counter_agg_delta(Target)),
                      time_delta |-> Some(counter_agg_time_delta(Target)),
                      rate |-> counter_agg_rate(Target),
                      irate_left |-> counter_agg_irate_left(Target),
                      irate_right |-> counter_agg_irate_right(Target),
                      idelta_left |-> Some(counter_agg_idelta_left(Target)),
                      idelta_right |-> Some(counter_agg_idelta_right(Target)),
                      extrapolated_delta |-> counter_agg_extrapolated_delta(Target, method),
                      extrapolated_rate |-> counter_agg_extrapolated_rate(Target, method)])
    /\ UNCHANGED <<qsig, qst, created, differs, qout, bounded, execVars, rollVars, apiVars, objVars>>

NextQuery ==
    \/ \E ts \in {None} \cup {Some(x) : x \in Timestamps},
          val \in {None} \cup {Some(x) : x \in Values}, bounds \in BoundsArgs :
          QTrans(ts, val, bounds)
    \/ \E ts \in {None} \cup {Some(x) : x \in Timestamps},
          val \in {None} \cup {Some(x) : x \in Values} : QTransNoBounds(ts, val)
    \/ QFinal
    \/ \E bounds \in WithBoundsArgs : QWithBounds(bounds)
    \/ \E method \in Methods : QAccess(method)

InitOneQuery ==
    /\ InitExec
    /\ qbounds = None
    /\ InitRollup
    /\ InitApi
    /\ InitQuery
    /\ qsig \in {2, 3}
    /\ InitObj

SpecQuery == InitOneQuery /\ [][NextQuery]_vars

\* ------------------------------------------------- calls on sref objects
\* The support functions and the methods of CounterSummaryTransState, called
\* on objects: up to one sref per worker is built row by row, or summary
\* by summary, then one method or function is called on the states, and
\* called once more.

\* rows carry one reading: what the calls leave of the objects does not
\* depend on the values
ObjPoints == {p \in TSPoint : p.val = 10}
\* the summaries handed to rollup: each the aggregate of one row
SummaryArgs == {from_internal_counter_summary(CounterSummary_new(p, None)) : p \in ObjPoints}

StateArgs == {None} \cup {Some(r) : r \in 1..Len(mem)}

Fed(st) == Len(st.point_buffer) + Len(st.summary_buffer)
RECURSIVE FedAll(_)
FedAll(m) == IF m = <<>> THEN 0 ELSE Fed(Head(m)) + FedAll(Tail(m))

Building ==
    IF IsSome(call)
    THEN Unwrap(call).op \in {"counter_agg_trans", "counter_agg_summary_trans"}
    ELSE TRUE

\* the call op(args) with outcome o becomes the last call
Log(op, args, o) ==
    /\ mem' = o.mem
    /\ call' = Some([op |-> op, args |-> args, before |-> mem, after |-> o.mem,
                     panic |-> o.panic, ret |-> o.ret, again |-> None])

\* sfunc of counter_agg on a state of counter_agg, or on none
ObjTrans(sref, ts, val, bounds) ==
    /\ Building
    /\ FedAll(mem) < MaxRows
    /\ IF IsSome(sref) THEN mem[Unwrap(sref)].summary_buffer = <<>> ELSE TRUE
    /\ IF IsSome(sref) THEN TRUE ELSE Len(mem) < Cardinality(Workers)
    /\ Log("counter_agg_trans", <<sref, ts, val, bounds>>,
           counter_agg_trans_at(mem, sref, ts, val, bounds))
    /\ UNCHANGED <<execVars, rollVars, apiVars, queryVars>>

\* sfunc of rollup on a state of rollup, or on none
ObjSummaryTrans(sref, value) ==
    /\ Building
    /\ FedAll(mem) < MaxRows
    /\ IF IsSome(sref) THEN mem[Unwrap(sref)].point_buffer = <<>> ELSE TRUE
    /\ IF IsSome(sref) THEN TRUE ELSE Len(mem) < Cardinality(Workers)
    /\ Log("counter_agg_summary_trans", <<sref, value>>,
           counter_agg_summary_trans_at(mem, sref, value))
    /\ UNCHANGED <<execVars, rollVars, apiVars, queryVars>>

\* the outcomes of the method or function op on the objects m
Apply(op, args, m) ==
    CASE op = "combine_points" -> combine_points_at(m, args[1])
      [] op = "combine_summaries" -> combine_summaries_at(m, args[1])
      [] op = "push_summary" -> push_summary_at(m, args[1], args[2])
      [] op = "counter_agg_combine" -> counter_agg_combine_at(m, args[1], args[2])
      [] op = "counter_agg_final" -> counter_agg_final_at(m, args[1])

\* one method or function called on the states built
ObjCall(op, args) ==
    /\ Building
    /\ \E o \in Apply(op, args, mem) : Log(op, args, o)
    /\ UNCHANGED <<execVars, rollVars, apiVars, queryVars>>

ObjCombinePoints(self) == ObjCall("combine_points", <<self>>)
ObjCombineSummaries(self) == ObjCall("combine_summaries", <<self>>)
ObjPushSummary(self, other) == self # other /\ ObjCall("push_summary", <<self, other>>)
ObjCombine(sref1, sref2) ==
    /\ IF IsSome(sref1) THEN sref1 # sref2 ELSE TRUE
    /\ ObjCall("counter_agg_combine", <<sref1, sref2>>)
ObjFinal(sref) == ObjCall("counter_agg_final", <<sref>>)

\* the last call made once more with the same arguments
ObjAgain ==
    /\ IsSome(call) /\ ~Building
    /\ ~Unwrap(call).panic /\ ~IsSome(Unwrap(call).again)
    /\ \E o \in Apply(Unwrap(call).op, Unwrap(call).args, mem) :
          /\ mem' = o.mem
          /\ call' = Some([Unwrap(call) EXCEPT !.again = Some(o)])
    /\ UNCHANGED <<execVars, rollVars, apiVars, queryVars>>

NextObj ==
    \/ \E sref \in StateArgs, ts \in {None} \cup {Some(p.ts) : p \in ObjPoints},
          val \in {None} \cup {Some(p.val) : p \in ObjPoints}, bounds \in BoundsArgs :
          ObjTrans(sref, ts, val, bounds)
    \/ \E sref \in StateArgs, value \in {None} \cup {Some(v) : v \in SummaryArgs} :
          ObjSummaryTrans(sref, value)
    \/ \E self \in 1..Len(mem) : ObjCombinePoints(self)
    \/ \E self \in 1..Len(mem) : ObjCombineSummaries(self)
    \/ \E self \in 1..Len(mem), other \in 1..Len(mem) : ObjPushSummary(self, other)
    \/ \E sref1 \in StateArgs, sref2 \in StateArgs : ObjCombine(sref1, sref2)
    \/ \E sref \in StateArgs : ObjFinal(sref)
    \/ ObjAgain

InitObjects ==
    /\ InitExec
    /\ qbounds = None
    /\ InitRollup
    /\ InitApi
    /\ InitQuery /\ qsig = 3
    /\ InitObj

SpecObj == InitObjects /\ [][NextObj]_vars

\* ---------------------------------------------------------------- reference
\* one transition state fed the points pts in order, every row with bounds b
RECURSIVE trans_all(_, _, _)
trans_all(st, pts, b) ==
    IF pts = <<>> THEN st
    ELSE trans_all(counter_agg_trans(st, Some(Head(pts).ts), Some(Head(pts).val), b),
                   Tail(pts), b)

\* the outcomes of counter_agg over pts in a single transition state
SingleState(pts, b) == counter_agg_final(trans_all(None, pts, b))

\* one rollup state fed the summaries sums in order
RECURSIVE summary_trans_all(_, _)
summary_trans_all(st, sums) ==
    IF sums = <<>> THEN st
    ELSE summary_trans_all(counter_agg_summary_trans(st, Some(Head(sums))), Tail(sums))

\* one transition state fed the points pts through counter_agg(ts, val)
RECURSIVE trans_no_bounds_all(_, _)
trans_no_bounds_all(st, pts) ==
    IF pts = <<>> THEN st
    ELSE trans_no_bounds_all(
             counter_agg_trans_no_bounds(st, Some(Head(pts).ts), Some(Head(pts).val)),
             Tail(pts))

RollupOf(sums) == counter_agg_final(summary_trans_all(None, sums))

RECURSIVE Permutations(_)
Permutations(s) ==
    IF s = <<>> THEN {<<>>}
    ELSE UNION {{<<s[i]>> \o r : r \in Permutations(Remove(s, i))} : i \in 1..Len(s)}

TsOf(pts) == {pts[i].ts : i \in 1..Len(pts)}

DistinctTs(pts) == \A i, j \in 1..Len(pts) : i # j => pts[i].ts # pts[j].ts

\* the fields assert_close_enough compares exactly, and the reset sum
CountFields(c) ==
    <<c.first, c.second, c.penultimate, c.last, c.num_resets, c.num_changes,
      c.reset_sum, c.stats.n>>

\* two outcomes of an aggregate agree on those fields (or both abort, or both
\* return no result)
SameCounts(o1, o2) ==
    /\ o1.panic = o2.panic
    /\ ~o1.panic =>
          /\ IsSome(Unwrap(o1.val)) = IsSome(Unwrap(o2.val))
          /\ IsSome(Unwrap(o1.val)) =>
                CountFields(Unwrap(Unwrap(o1.val))) = CountFields(Unwrap(Unwrap(o2.val)))

\* the groups cover disjoint stretches of time
GroupsDisjoint ==
    \A g, h \in 1..Len(grows) :
        g # h => \/ \A x \in TsOf(grows[g]), y \in TsOf(grows[h]) : x < y
                 \/ \A x \in TsOf(grows[g]), y \in TsOf(grows[h]) : y < x

\* every row the aggregate was fed, worker 1's first
AllRows == rows[1] \o rows[2]

\* the plan finalized worker 1's state, no partial state was moved or combined
DirectPlan == rows[2] = <<>> /\ \A w \in Workers : wstat[w] = "scan"

PointSet(pts) == {pts[i] : i \in 1..Len(pts)}

\* the pairs of points next to each other in time
Adjacent(P) ==
    {pq \in P \X P : /\ pq[1].ts < pq[2].ts
                     /\ ~\E r \in P : pq[1].ts < r.ts /\ r.ts < pq[2].ts}

Decreases(P) == {pq \in Adjacent(P) : pq[2].val < pq[1].val}
Changes(P) == {pq \in Adjacent(P) : pq[2].val # pq[1].val}

RECURSIVE SumBefore(_)
SumBefore(PQ) ==
    IF PQ = {} THEN 0
    ELSE LET pq == CHOOSE x \in PQ : TRUE IN pq[1].val + SumBefore(PQ \ {pq})

Earliest(P) == CHOOSE p \in P : \A q \in P : p.ts <= q.ts
Latest(P) == CHOOSE p \in P : \A q \in P : q.ts <= p.ts

\* ------------------------------------------------------------------ claims
\* C1: when a time-sorted point sequence is split into 2 or 3 contiguous
\* groups, the rollup of the groups' summaries has the same first, second,
\* penultimate, last, num_resets, num_changes, reset_sum and point count as
\* counter_agg over the whole sequence.
C1_RollupEqualsWhole ==
    (IsSome(rollout) /\ Len(grows) \in {2, 3} /\ GroupsDisjoint)
        => \A o \in SingleState(Flatten(grows), None) : SameCounts(Unwrap(rollout), o)

\* C2: whatever the assignment of rows with distinct timestamps to the
\* workers, combining the workers' states and finalizing returns the same
\* CounterSummary (or the same abort, or no result) as one transition state
\* fed all the rows.
C2_ShardsEqualSingleState ==
    (IsSome(final) /\ DistinctTs(AllRows))
        => \A o \in SingleState(AllRows, qbounds) : Unwrap(final) = o

\* C3: the rollup of the partial summaries is the same whatever the order in
\* which they were added to summary_buffer, partials with equal first.ts
\* included.
C3_OrderIrrelevant ==
    (IsSome(rollout) /\ ~IsSome(grp))
        => \A perm \in Permutations(partials) : RollupOf(perm) = {Unwrap(rollout)}

DistinctFirstTs(sums) ==
    \A i, j \in 1..Len(sums) : i # j => sums[i].first.ts # sums[j].first.ts

\* C3 as amended: the same, for partials whose first.ts differ pairwise.
C3_OrderIrrelevantDistinctFirst ==
    (IsSome(rollout) /\ ~IsSome(grp) /\ DistinctFirstTs(partials))
        => \A perm \in Permutations(partials) : RollupOf(perm) = {Unwrap(rollout)}

C3_Witness ==
    /\ Returned(rollout) /\ ~IsSome(grp) /\ DistinctFirstTs(partials)
    /\ Len(partials) = 3
    /\ partials[1].first.ts > partials[2].first.ts
    /\ partials[3].first.ts < partials[2].first.ts
    /\ counter_agg_num_elements(ResultOf(rollout)) = 3

\* C4: combine is associative on three time-ordered, non-overlapping
\* summaries: both groupings succeed and agree in every field.
C4_CombineAssociative ==
    IsSome(assoc) => /\ ~Unwrap(assoc).left.err
                     /\ Unwrap(assoc).left = Unwrap(assoc).right

C4_Witness ==
    /\ IsSome(assoc) /\ ~Unwrap(assoc).left.err
    /\ chain[1].stats.n = 2 /\ chain[2].stats.n = 2
    /\ chain[2].first.val < chain[1].last.val
    /\ chain[3].first.val < chain[2].last.val
    /\ ~IsSome(chain[1].bounds) /\ IsSome(chain[2].bounds)
    /\ Unwrap(Unwrap(assoc).left.val).num_resets = 2

\* C5: the outcome of finalizing one transition state is the same for every
\* order in which its points were pushed.
C5_PushOrderIrrelevant ==
    (IsSome(final) /\ DirectPlan)
        => \A perm \in Permutations(rows[1]) :
              SingleState(perm, qbounds) = {Unwrap(final)}

C5_Witness ==
    /\ IsSome(final) /\ DirectPlan /\ Returned(final)
    /\ Len(rows[1]) = 3
    /\ rows[1][1].ts > rows[1][2].ts /\ rows[1][3].ts < rows[1][2].ts
    /\ counter_agg_num_elements(ResultOf(final)) = 3

\* C6: for points with distinct timestamps the finalized summary counts the
\* time-adjacent pairs whose value decreases (num_resets) and whose values
\* differ (num_changes), and sums the values right before each decrease
\* (reset_sum).
C6_ResetAccounting ==
    (Returned(final) /\ DistinctTs(AllRows))
        => LET s == ResultOf(final)
               P == PointSet(AllRows)
           IN /\ counter_agg_num_resets(s) = Cardinality(Decreases(P))
              /\ counter_agg_num_changes(s) = Cardinality(Changes(P))
              /\ s.reset_sum = SumBefore(Decreases(P))

C6_Witness ==
    /\ Returned(final) /\ DistinctTs(AllRows)
    /\ {AllRows[i].val : i \in 1..Len(AllRows)} = {10, 20}
    /\ ResultOf(final).num_resets = 1
    /\ ResultOf(final).num_changes = 2
    /\ ResultOf(final).reset_sum = 20

\* C7: delta of a finalized summary is the latest value minus the earliest
\* plus the values lost at the resets between them, and time_delta is the
\* time from the earliest to the latest point in seconds.
C7_DeltaAndTimeDelta ==
    (Returned(final) /\ DistinctTs(AllRows))
        => LET s == ResultOf(final)
               P == PointSet(AllRows)
           IN /\ counter_agg_delta(s) = s.last.val - s.first.val + s.reset_sum
              /\ counter_agg_delta(s) =
                    Latest(P).val - Earliest(P).val + SumBefore(Decreases(P))
              /\ counter_agg_time_delta(s) * USECS_PER_SEC = s.last.ts - s.first.ts
              /\ counter_agg_time_delta(s) * USECS_PER_SEC =
                    Latest(P).ts - Earliest(P).ts

C7_Witness ==
    /\ Returned(final)
    /\ AllRows = <<[ts |-> Minute(0), val |-> 10], [ts |-> Minute(1), val |-> 20]>>
    /\ counter_agg_delta(ResultOf(final)) = 10
    /\ counter_agg_time_delta(ResultOf(final)) = 60

\* every summary the executor holds: in the workers' and the leader's
\* summary buffers, on the wire and as the aggregate's result
BufferOf(o) == IF IsSome(o) THEN Unwrap(o).summary_buffer ELSE <<>>
Held ==
    UNION ({PointSet(BufferOf(state[w])) : w \in Workers}
           \cup {PointSet(BufferOf(wire[w])) : w \in Workers})
    \cup PointSet(BufferOf(leader))
    \cup (IF Returned(final) THEN {ResultOf(final)} ELSE {})

\* C8: every summary has at least as many changes as resets.
C8_ChangesAtLeastResets == \A s \in Held : s.num_changes >= s.num_resets

C8_Witness ==
    /\ Returned(final) /\ ResultOf(final).num_resets = 1
    /\ IsSome(leader) /\ Len(Unwrap(leader).summary_buffer) = 2
    /\ \E s \in PointSet(Unwrap(leader).summary_buffer) : s.num_resets = 1

\* C9: the point count of the finalized summary is the number of rows with
\* non-null ts and val the aggregate was fed, whatever trans, serialize,
\* deserialize, combine and final steps led to it.
C9_NoPointLost ==
    Returned(final) => counter_agg_num_elements(ResultOf(final)) = Len(AllRows)

C9_Witness ==
    /\ Returned(final)
    /\ wstat[2] = "combined" /\ Len(rows[2]) = 2 /\ Len(rows[1]) = 1
    /\ counter_agg_num_elements(ResultOf(final)) = 3

\* C10: finalizing returns a summary exactly when the state received a point,
\* no result for an absent state or a state without points and summaries, and
\* never a summary that covers no point.
C10_FinalCollapses ==
    /\ (IsSome(final) /\ ~Unwrap(final).panic)
          => /\ Returned(final) <=> Len(AllRows) > 0
             /\ Returned(final) => counter_agg_num_elements(ResultOf(final)) >= 1
    /\ counter_agg_final(None) = {Ok(None)}
    /\ counter_agg_final(Some(CounterSummaryTransState(<<>>, qbounds, <<>>))) = {Ok(None)}

C10_Witness ==
    /\ Returned(final)
    /\ IsSome(leader) /\ Len(Unwrap(leader).summary_buffer) = 2
    /\ counter_agg_num_elements(ResultOf(final)) = 3

\* what serialize, deserialize makes of the transition state st: the bytes
\* hold at most one summary, the state read back has no points, no bounds
\* and the summary buffer combine_summaries left, and finalizes as st does
RoundTrips(st) ==
    LET whole == counter_agg_final(Some(st))
    IN \A o \in counter_summary_trans_serialize(st) :
          IF o.panic THEN Panicked \in whole
          ELSE LET bytes == Unwrap(o.val)
                   d == counter_summary_trans_deserialize(bytes)
                   back == counter_agg_final(Some(d))
               IN /\ Len(bytes.summary_buffer) <= 1
                  /\ d.point_buffer = <<>>
                  /\ d.bounds = None
                  /\ \E c \in combine_summaries(st) :
                        ~c.panic /\ d.summary_buffer = Unwrap(c.val).summary_buffer
                  /\ back \subseteq whole
                  /\ Cardinality(whole) = 1 => back = whole

\* worker w holds a state the executor may still serialize: one it is
\* building, or one it received; a state that was combined keeps its value
Pending(w) ==
    /\ ~IsSome(final)
    /\ IsSome(state[w])
    /\ wstat[w] \in {"scan", "recv"}

\* C11: serialize combines first, so the bytes hold at most one summary and
\* no points; the state deserialized from them has an empty point_buffer,
\* absent bounds and the combined summary_buffer, and finalizes to the same
\* CounterSummary as the state that was serialized.
C11_SerializeRoundTrip ==
    /\ \A w \in Workers : Pending(w) => RoundTrips(Unwrap(state[w]))
    /\ (IsSome(leader) /\ ~IsSome(final)) => RoundTrips(Unwrap(leader))
    /\ \A w \in Remote :
          /\ IsSome(wire[w]) => Len(Unwrap(wire[w]).summary_buffer) <= 1
          /\ wstat[w] = "recv" =>
                /\ Unwrap(state[w]).point_buffer = <<>>
                /\ Unwrap(state[w]).bounds = None
                /\ counter_agg_final(state[w])
                      = counter_agg_final(trans_all(None, rows[w], qbounds))

C11_Witness ==
    /\ wstat[2] = "recv" /\ IsSome(qbounds)
    /\ Len(rows[2]) = 2 /\ rows[2][1].ts > rows[2][2].ts
    /\ Len(Unwrap(state[2]).summary_buffer) = 1
    /\ Unwrap(state[2]).summary_buffer[1].stats.n = 2
    /\ Unwrap(state[2]).summary_buffer[1].bounds = qbounds
    /\ Unwrap(state[2]).bounds = None

\* C12: the bounds of a transition state are those of the row that created
\* it, whatever bounds the later rows carried, and every summary
\* combine_points builds, and so the aggregate's result, carries them.
C12_BoundsFixedAtCreation ==
    /\ IsSome(qst) =>
          LET st == Unwrap(qst)
          IN /\ st.bounds = Unwrap(created)
             /\ \A o \in combine_points(st) :
                   ~o.panic =>
                      LET after == Unwrap(o.val)
                      IN /\ after.bounds = st.bounds
                         /\ \A i \in 1..Len(after.summary_buffer) :
                               after.summary_buffer[i].bounds = st.bounds
    /\ Returned(qout) => ResultOf(qout).bounds = Unwrap(created)

C12_Witness ==
    /\ Returned(qout) /\ differs
    /\ created = Some(Some(Range))
    /\ ResultOf(qout).bounds = Some(Range)
    /\ counter_agg_num_elements(ResultOf(qout)) = 2

\* C16: with_bounds on a summary aggregated without bounds sets the bounds
\* and nothing else; the summary, and so extrapolated_delta and
\* extrapolated_rate on it, are those of counter_agg given the same rows and
\* the same bounds.
C16_WithBoundsAsConstructed ==
    (IsSome(bounded) /\ ~IsSome(ResultOf(qout).bounds)) =>
        LET b == Unwrap(bounded).bounds
            w == Unwrap(bounded).summary
        IN /\ w = [ResultOf(qout) EXCEPT !.bounds = Some(b)]
           /\ \A o \in SingleState(Unwrap(qst).point_buffer, Some(b)) :
                 ~o.panic =>
                    LET c == Unwrap(Unwrap(o.val))
                    IN /\ w = c
                       /\ \A m \in Methods :
                             /\ counter_agg_extrapolated_delta(w, m)
                                   = counter_agg_extrapolated_delta(c, m)
                             /\ counter_agg_extrapolated_rate(w, m)
                                   = counter_agg_extrapolated_rate(c, m)
                       /\ (IsSome(shown) /\ Unwrap(shown).on = w) =>
                             /\ Unwrap(shown).extrapolated_delta
                                   = counter_agg_extrapolated_delta(c, Unwrap(shown).method)
                             /\ Unwrap(shown).extrapolated_rate
                                   = counter_agg_extrapolated_rate(c, Unwrap(shown).method)

C16_Witness ==
    /\ IsSome(bounded) /\ ~IsSome(ResultOf(qout).bounds)
    /\ Unwrap(qst).point_buffer =
          <<[ts |-> Minute(0), val |-> 10], [ts |-> Minute(1), val |-> 20]>>
    /\ IsSome(shown) /\ Unwrap(shown).on = Unwrap(bounded).summary
    /\ ~Unwrap(shown).extrapolated_delta.panic
    /\ LET f == Unwrap(Unwrap(Unwrap(shown).extrapolated_delta.val))
       IN f.num = 10 * prometheus_window(Unwrap(shown).on) /\ f.den = 60000
    /\ SingleState(Unwrap(qst).point_buffer, Some(Range))
          = {Ok(Some(Unwrap(bounded).summary))}

\* C17: counter_agg(ts, val, NULL) and counter_agg(ts, val) over the same rows
\* build the same state and return the same outcome: summaries equal in
\* first, second, penultimate, last, num_changes, num_resets and point
\* count, with absent bounds.
C17_NullBoundsAsNoBounds ==
    (IsSome(qout) /\ IsSome(qst) /\ created = Some(None) /\ ~differs) =>
        LET pts == Unwrap(qst).point_buffer
            given_null == trans_all(None, pts, None)
            given_none == trans_no_bounds_all(None, pts)
        IN /\ qst = given_null /\ qst = given_none
           /\ Unwrap(qout) \in counter_agg_final(given_null)
           /\ Unwrap(qout) \in counter_agg_final(given_none)
           /\ \A o1 \in counter_agg_final(given_null),
                 o2 \in counter_agg_final(given_none) : SameCounts(o1, o2)
           /\ \A o \in counter_agg_final(given_null) \cup counter_agg_final(given_none) :
                 (~o.panic /\ IsSome(Unwrap(o.val))) => ~IsSome(Unwrap(Unwrap(o.val)).bounds)

C17_Witness ==
    /\ Returned(qout) /\ qsig = 2 /\ created = Some(None) /\ ~differs
    /\ Unwrap(qst).point_buffer =
          <<[ts |-> Minute(0), val |-> 10], [ts |-> Minute(1), val |-> 20]>>
    /\ ~IsSome(ResultOf(qout).bounds)
    /\ counter_agg_final(trans_all(None, Unwrap(qst).point_buffer, None)) = {Unwrap(qout)}

\* C18: with a known method, extrapolated_delta and extrapolated_rate
\* return NULL, neither an error nor a value, on a summary without bounds
\* or with fewer than 2 points.
C18_ExtrapolationNoResult ==
    IsSome(shown) =>
        LET s == Unwrap(shown).on
        IN (IsSome(as_method(Unwrap(shown).method))
              /\ (~IsSome(s.bounds) \/ counter_agg_num_elements(s) < 2))
             => /\ Unwrap(shown).extrapolated_delta = Ok(None)
                /\ Unwrap(shown).extrapolated_rate = Ok(None)

C18_Witness ==
    /\ IsSome(shown) /\ IsSome(as_method(Unwrap(shown).method))
    /\ IsSome(Unwrap(shown).on.bounds)
    /\ counter_agg_num_elements(Unwrap(shown).on) = 1
    /\ Unwrap(shown).extrapolated_delta = Ok(None)
    /\ Unwrap(shown).extrapolated_rate = Ok(None)

\* C19: on a summary built from exactly one point delta is 0 and rate
\* returns NULL.
C19_SinglePointDeltaRate ==
    /\ (Returned(qout) /\ Len(Unwrap(qst).point_buffer) = 1)
          => /\ counter_agg_delta(ResultOf(qout)) = 0
             /\ counter_agg_rate(ResultOf(qout)) = None
    /\ (IsSome(shown) /\ Len(Unwrap(qst).point_buffer) = 1)
          => /\ Unwrap(shown).delta = Some(0)
             /\ Unwrap(shown).rate = None

C19_Witness ==
    /\ IsSome(shown) /\ Len(Unwrap(qst).point_buffer) = 1
    /\ counter_agg_num_elements(Unwrap(shown).on) = 1
    /\ Unwrap(shown).delta = Some(0)
    /\ Unwrap(shown).rate = None

\* C20: irate_left, idelta_left, irate_right and idelta_right each return
\* NULL on a summary with fewer than 2 points.
C20_EdgeMetricsNoResult ==
    (IsSome(shown) /\ counter_agg_num_elements(Unwrap(shown).on) < 2)
        => /\ Unwrap(shown).irate_left = None
           /\ Unwrap(shown).irate_right = None
           /\ Unwrap(shown).idelta_left = None
           /\ Unwrap(shown).idelta_right = None

\* the rows outside the half-open range b
Outside(b) == {p \in PointSet(AllRows) : p.ts < b.left \/ p.ts >= b.right}

\* C13: when the bounds do not hold every point the aggregation aborts and
\* returns no summary; every summary returned has absent bounds or bounds
\* that hold its points.
C13_BoundsAbort ==
    /\ (IsSome(final) /\ IsSome(qbounds) /\ Outside(Unwrap(qbounds)) # {})
          => Unwrap(final) = Panicked
    /\ Returned(final) =>
          LET s == ResultOf(final)
          IN IsSome(s.bounds) =>
                /\ Unwrap(s.bounds).left <= s.first.ts
                /\ s.last.ts < Unwrap(s.bounds).right
                /\ Outside(Unwrap(s.bounds)) = {}

C13_Witness ==
    /\ IsSome(final) /\ Unwrap(final) = Panicked
    /\ DirectPlan /\ DistinctTs(AllRows) /\ Len(AllRows) = 2
    /\ IsSome(qbounds) /\ Cardinality(Outside(Unwrap(qbounds))) = 1

\* in the order sorted, a summary ends after the next one begins
Overlap(sorted) ==
    \E k \in 1..(Len(sorted) - 1) : sorted[k].last.ts > sorted[k + 1].first.ts

\* C14: when the summaries of summary_buffer, sorted by first.ts, overlap in
\* time, combine_summaries aborts and finalize returns nothing; a summary
\* that is returned covers the points of every partial.
C14_OverlapAborts ==
    /\ IsSome(roll) =>
          \A sorted \in sort_summaries(Unwrap(roll).summary_buffer) :
              Overlap(sorted) => combine_summaries_sorted(Unwrap(roll), sorted) = Panicked
    /\ (IsSome(rollout) /\ ~IsSome(grp) /\ fedn = Len(partials))
          => /\ (\A sorted \in sort_summaries(partials) : Overlap(sorted))
                   => Unwrap(rollout) = Panicked
             /\ Returned(rollout)
                   => /\ \E sorted \in sort_summaries(partials) : ~Overlap(sorted)
                      /\ counter_agg_num_elements(ResultOf(rollout)) = Len(Flatten(grows))

C14_Witness ==
    /\ IsSome(rollout) /\ Unwrap(rollout) = Panicked
    /\ ~IsSome(grp) /\ fedn = Len(partials) /\ Len(partials) = 2
    /\ DistinctTs(Flatten(grows))
    /\ partials[1].first.ts < partials[2].first.ts
    /\ partials[1].last.ts > partials[2].first.ts

EdgesOf(s, P) ==
    /\ s.first = Earliest(P)
    /\ s.second = Earliest(P \ {s.first})
    /\ s.last = Latest(P)
    /\ s.penultimate = Latest(P \ {s.last})

\* C26: a summary over at least two points, whether folded from the points
\* of one group or merged from the groups' summaries, holds the two earliest
\* points as first and second and the two latest as penultimate and last.
C26_EdgePoints ==
    /\ \A g \in 1..Len(partials) :
          (DistinctTs(grows[g]) /\ Len(grows[g]) >= 2)
             => EdgesOf(partials[g], PointSet(grows[g]))
    /\ (Returned(rollout) /\ ~IsSome(grp) /\ fedn = Len(partials)
           /\ DistinctTs(Flatten(grows)) /\ Len(Flatten(grows)) >= 2)
          => EdgesOf(ResultOf(rollout), PointSet(Flatten(grows)))

\* the method name of the closed set, in small and in capital letters
NameLower == <<"p", "r", "o", "m", "e", "t", "h", "e", "u", "s">>
NameUpper == <<"P", "R", "O", "M", "E", "T", "H", "E", "U", "S">>

\* str is the name in any mix of cases with nothing but white space around
Spells(str) ==
    \E i \in 1..Len(str) :
        /\ i + Len(NameLower) - 1 <= Len(str)
        /\ \A k \in 1..Len(NameLower) : str[i + k - 1] \in {NameLower[k], NameUpper[k]}
        /\ \A k \in 1..Len(str) :
              (k < i \/ k > i + Len(NameLower) - 1) => str[k] \in {" ", "\t", "\n"}

\* C22: a method string that spells prometheus in any mix of cases, with
\* white space around it, is dispatched as the plain name is; for any other
\* string extrapolated_delta and extrapolated_rate raise an error and
\* return nothing.
C22_MethodDispatch ==
    IsSome(shown) =>
        LET s == Unwrap(shown).on
            m == Unwrap(shown).method
        IN IF Spells(m)
           THEN /\ Unwrap(shown).extrapolated_delta = counter_agg_extrapolated_delta(s, NameLower)
                /\ Unwrap(shown).extrapolated_rate = counter_agg_extrapolated_rate(s, NameLower)
                /\ (IsSome(s.bounds) /\ counter_agg_num_elements(s) >= 2
                       /\ bounds_valid(to_internal_counter_summary(s)))
                      => /\ Returned(<<Unwrap(shown).extrapolated_delta>>)
                         /\ Returned(<<Unwrap(shown).extrapolated_rate>>)
           ELSE /\ Unwrap(shown).extrapolated_delta = Panicked
                /\ Unwrap(shown).extrapolated_rate = Panicked

C22_Witness ==
    /\ IsSome(shown)
    /\ Unwrap(shown).method # NameLower /\ Spells(Unwrap(shown).method)
    /\ Returned(<<Unwrap(shown).extrapolated_delta>>)
    /\ Returned(<<Unwrap(shown).extrapolated_rate>>)

\* the last call was op, and it returned
Called(op) == IsSome(call) /\ Unwrap(call).op = op /\ ~Unwrap(call).panic

\* every summary the objects hold
Summaries(m) ==
    UNION {{m[r].summary_buffer[k] : k \in 1..Len(m[r].summary_buffer)} : r \in 1..Len(m)}

\* the four edge points of s are the point p
EdgesAre(s, p) == s.first = p /\ s.second = p /\ s.penultimate = p /\ s.last = p

\* C21: a summary over exactly one point has first, second, penultimate and
\* last equal to that point: the summaries seeded by new that rollup was
\* handed, and the summary combine_points builds from a one-point buffer.
C21_SinglePointEdges ==
    /\ \A s \in Summaries(mem) : s.stats.n = 1 => EdgesAre(s, s.first)
    /\ Called("combine_points") =>
          LET self == Unwrap(call).args[1]
              pb == Unwrap(call).before[self].point_buffer
              sb == mem[self].summary_buffer
          IN Len(pb) = 1 => /\ sb # <<>>
                            /\ sb[Len(sb)].stats.n = 1
                            /\ EdgesAre(sb[Len(sb)], pb[1])
    /\ (Called("counter_agg_final") /\ IsSome(Unwrap(call).ret))
          => LET s == Unwrap(Unwrap(call).ret)
             IN s.stats.n = 1 => EdgesAre(s, s.first)

C21_Witness ==
    /\ Called("combine_points")
    /\ Len(Unwrap(call).before[Unwrap(call).args[1]].point_buffer) = 1
    /\ Len(mem[Unwrap(call).args[1]].summary_buffer) = 1
    /\ mem[Unwrap(call).args[1]].summary_buffer[1].stats.n = 1

\* C23: combine_points on an empty point_buffer changes nothing, and a
\* second combine_points right after the first returns too and leaves the
\* state as the first left it, with no summary added.
C23_CombinePointsIdempotent ==
    Called("combine_points") =>
        LET c == Unwrap(call)
            self == c.args[1]
        IN /\ c.before[self].point_buffer = <<>> => c.after = c.before
           /\ Apply("combine_points", c.args, c.after)
                 = {[panic |-> FALSE, mem |-> c.after, ret |-> None]}
           /\ IsSome(c.again) => /\ ~Unwrap(c.again).panic
                                 /\ Unwrap(c.again).mem = c.after
                                 /\ mem = c.after

C23_Witness ==
    /\ Called("combine_points") /\ IsSome(Unwrap(call).again)
    /\ Len(Unwrap(call).before[Unwrap(call).args[1]].point_buffer) = 2
    /\ Len(Unwrap(call).after[Unwrap(call).args[1]].summary_buffer) = 1
    /\ mem = Unwrap(call).after

\* what counter_agg_final returns on the results of counter_agg_combine
FinalOfCombine(m, sref1, sref2) ==
    UNION {IF o.panic THEN {Panicked} ELSE counter_agg_final(Deref(o.mem, o.ret))
              : o \in counter_agg_combine_at(m, sref1, sref2)}

\* C24: counter_agg_combine of a state with no state, on either side, or
\* with a state that holds no points and no summaries, finalizes as the
\* state alone does; counter_agg_combine of no state with no state is none.
C24_CombineWithNothing ==
    (IsSome(call) /\ Unwrap(call).op = "counter_agg_combine") =>
        LET c == Unwrap(call)
            with == Append(c.before, Empty)
            nothing == Some(Len(with))
            Alone(sref) == counter_agg_final(Deref(c.before, sref))
        IN /\ (c.args = <<None, None>>)
                 => ~c.panic /\ c.ret = None /\ c.after = c.before
           /\ \A i \in {1, 2} :
                 IsSome(c.args[i]) =>
                    /\ FinalOfCombine(c.before, c.args[i], None) = Alone(c.args[i])
                    /\ FinalOfCombine(c.before, None, c.args[i]) = Alone(c.args[i])
                    /\ FinalOfCombine(with, c.args[i], nothing) = Alone(c.args[i])
                    /\ FinalOfCombine(with, nothing, c.args[i]) = Alone(c.args[i])
           /\ (~c.panic /\ (c.args[1] = None) # (c.args[2] = None))
                 => counter_agg_final(Deref(c.after, c.ret))
                       = Alone(IF IsSome(c.args[1]) THEN c.args[1] ELSE c.args[2])

C24_Witness ==
    /\ Called("counter_agg_combine")
    /\ Unwrap(call).args = <<Some(1), None>>
    /\ Len(Unwrap(call).before[1].point_buffer) = 2
    /\ IsSome(Unwrap(call).ret)
    /\ \E o \in counter_agg_final(Deref(mem, Unwrap(call).ret)) :
          Returned(<<o>>) /\ ResultOf(<<o>>).stats.n = 2

\* C25: when combine_summaries returns, point_buffer is empty and
\* summary_buffer holds one summary, or none if the state held neither a
\* point nor a summary; so the assertion of counter_agg_final holds on every
\* state combine_summaries returns from.
C25_CombineSummariesCollapses ==
    /\ Called("combine_summaries") =>
          LET self == Unwrap(call).args[1]
              was == Unwrap(call).before[self]
          IN /\ mem[self].point_buffer = <<>>
             /\ Len(mem[self].summary_buffer) = IF Fed(was) > 0 THEN 1 ELSE 0
             /\ debug_assert_holds(mem[self])
    /\ (IsSome(call) /\ Unwrap(call).op = "counter_agg_final"
          /\ IsSome(Unwrap(call).args[1]))
          => \A o \in combine_summaries_exit(Unwrap(call).before[Unwrap(Unwrap(call).args[1])]) :
                ~o.panic => /\ debug_assert_holds(o.self)
                            /\ o.self.point_buffer = <<>>

C25_Witness ==
    /\ Called("combine_summaries")
    /\ Len(Unwrap(call).before[Unwrap(call).args[1]].summary_buffer) = 2
    /\ Len(mem[Unwrap(call).args[1]].summary_buffer) = 1
    /\ mem[Unwrap(call).args[1]].summary_buffer[1].stats.n = 2

\* C27: self.push_summary(&other) appends the summaries of other to those of
\* self, in their order, and changes nothing else: not the points or the
\* bounds of self, not other, whose pending points stay with it, and no
\* other state.
C27_PushSummaryFrame ==
    Called("push_summary") =>
        LET c == Unwrap(call)
            self == c.args[1]
            other == c.args[2]
        IN /\ c.after[self].summary_buffer
                 = c.before[self].summary_buffer \o c.before[other].summary_buffer
           /\ c.after[self].point_buffer = c.before[self].point_buffer
           /\ c.after[self].bounds = c.before[self].bounds
           /\ Len(c.after) = Len(c.before)
           /\ \A r \in 1..Len(c.after) : r # self => c.after[r] = c.before[r]

C27_Witness ==
    /\ Called("push_summary") /\ ~IsSome(Unwrap(call).again)
    /\ Len(mem[Unwrap(call).args[2]].summary_buffer) = 2
    /\ Len(mem[Unwrap(call).args[1]].point_buffer) = 1
    /\ IsSome(mem[Unwrap(call).args[1]].bounds)
    /\ Len(mem[Unwrap(call).args[1]].summary_buffer) = 2

\* what a call of counter_agg_combine or counter_agg_final returned: the
\* state the returned object holds, or the summary
Result(op, o) ==
    [panic |-> o.panic,
     val |-> IF op = "counter_agg_combine" THEN Deref(o.mem, o.ret) ELSE o.ret]

\* the outcomes of the function on the values of the states, in the same form
OnValues(op, args, m) ==
    {[panic |-> o.panic, val |-> IF o.panic THEN None ELSE Unwrap(o.val)]
        : o \in IF op = "counter_agg_combine"
                THEN counter_agg_combine(Deref(m, args[1]), Deref(m, args[2]))
                ELSE counter_agg_final(Deref(m, args[1]))}

\* C28: counter_agg_combine and counter_agg_final leave every state they
\* are handed as it was, whether they return or abort, and the same call
\* made again on the same states returns the same result, which is the
\* result of the function on the states' values.
C28_InputsUnchanged ==
    (IsSome(call) /\ Unwrap(call).op \in {"counter_agg_combine", "counter_agg_final"}) =>
        LET c == Unwrap(call)
            first == [panic |-> c.panic, mem |-> c.after, ret |-> c.ret]
        IN /\ SubSeq(c.after, 1, Len(c.before)) = c.before
           /\ {Result(c.op, o) : o \in Apply(c.op, c.args, c.after)}
                 = {Result(c.op, o) : o \in Apply(c.op, c.args, c.before)}
           /\ {Result(c.op, o) : o \in Apply(c.op, c.args, c.before)}
                 = OnValues(c.op, c.args, c.before)
           /\ IsSome(c.again) =>
                 /\ Result(c.op, Unwrap(c.again)) = Result(c.op, first)
                 /\ SubSeq(Unwrap(c.again).mem, 1, Len(c.before)) = c.before

C28_Witness ==
    /\ Called("counter_agg_final") /\ IsSome(Unwrap(call).again)
    /\ IsSome(Unwrap(call).ret) /\ Unwrap(Unwrap(call).ret).stats.n = 2
    /\ Len(Unwrap(call).before[Unwrap(Unwrap(call).args[1])].point_buffer) = 2
    /\ Unwrap(Unwrap(call).again).ret = Unwrap(call).ret
    /\ mem = Unwrap(call).before

\* the call left every object but r as it was, and made no new one
OnlyTouched(c, r) ==
    /\ Len(c.after) = Len(c.before)
    /\ \A k \in 1..Len(c.after) : k # r => c.after[k] = c.before[k]

\* C29: a row with a null timestamp or a null value changes no state and
\* creates none, whatever bounds it carries, and returns the state it was
\* handed; so does a null summary.  A row creates an absent state with its
\* own bounds; a summary is appended to summary_buffer, and point_buffer and
\* bounds stay as they were.
C29_NullInputs ==
    /\ Called("counter_agg_trans") =>
          LET c == Unwrap(call)
              sref == c.args[1]
          IN IF ~IsSome(c.args[2]) \/ ~IsSome(c.args[3])
             THEN c.after = c.before /\ c.ret = sref
             ELSE LET p == [ts |-> Unwrap(c.args[2]), val |-> Unwrap(c.args[3])]
                  IN IF IsSome(sref)
                     THEN /\ c.ret = sref /\ OnlyTouched(c, Unwrap(sref))
                          /\ c.after[Unwrap(sref)]
                                = [c.before[Unwrap(sref)] EXCEPT
                                      !.point_buffer = Append(@, p)]
                     ELSE /\ c.ret = Some(Len(c.after))
                          /\ c.after = Append(c.before,
                                          CounterSummaryTransState(<<p>>, c.args[4], <<>>))
    /\ Called("counter_agg_summary_trans") =>
          LET c == Unwrap(call)
              sref == c.args[1]
          IN /\ IF ~IsSome(c.args[2])
                THEN c.after = c.before /\ c.ret = sref
                ELSE LET s == to_internal_counter_summary(Unwrap(c.args[2]))
                     IN IF IsSome(sref)
                        THEN /\ c.ret = sref /\ OnlyTouched(c, Unwrap(sref))
                             /\ c.after[Unwrap(sref)]
                                   = [c.before[Unwrap(sref)] EXCEPT
                                         !.summary_buffer = Append(@, s)]
                        ELSE /\ c.ret = Some(Len(c.after))
                             /\ c.after = Append(c.before,
                                             CounterSummaryTransState(<<>>, None, <<s>>))
             /\ \A r \in 1..Len(c.before), v \in SummaryArgs :
                   /\ counter_agg_summary_trans(Some(c.before[r]), None)
                         = Some(c.before[r])
                   /\ counter_agg_summary_trans(Some(c.before[r]), Some(v))
                         = Some([c.before[r] EXCEPT !.summary_buffer =
                                    Append(@, to_internal_counter_summary(v))])

C29_Witness ==
    /\ Called("counter_agg_trans")
    /\ Unwrap(call).args = <<Some(1), Some(Minute(1)), None, Some(Range)>>
    /\ Len(mem) = 1 /\ Len(mem[1].point_buffer) = 1
    /\ ~IsSome(mem[1].bounds)
    /\ mem = Unwrap(call).before

\* the last call was combine_points, and it panicked
Aborted == IsSome(call) /\ Unwrap(call).op = "combine_points" /\ Unwrap(call).panic

\* C30: when combine_points aborts, summary_buffer is as it was before the
\* call: the summary whose bounds fail validation is not pushed, and no
\* state ever holds a summary whose bounds do not hold its points.
C30_AbortLeavesSummaries ==
    /\ Aborted =>
          LET c == Unwrap(call)
              self == c.args[1]
          IN /\ c.after[self].summary_buffer = c.before[self].summary_buffer
             /\ c.after[self].bounds = c.before[self].bounds
             /\ OnlyTouched(c, self)
    /\ \A s \in Summaries(mem) : bounds_valid(s)

C30_Witness ==
    /\ Aborted
    /\ IsSome(Unwrap(call).before[Unwrap(call).args[1]].bounds)
    /\ Len(Unwrap(call).before[Unwrap(call).args[1]].point_buffer) = 2
    /\ DistinctTs(Unwrap(call).before[Unwrap(call).args[1]].point_buffer)
    /\ mem[Unwrap(call).args[1]].point_buffer = <<>>
    /\ mem[Unwrap(call).args[1]].summary_buffer = <<>>

====
